---- MODULE Spec2Model ----
(***************************************************************************)
(* Delayed level actions (crawl-ref/source/dactions.cc).                   *)
(*                                                                         *)
(* you.dactions is the session-wide log of scheduled delayed actions.      *)
(* Every level keeps env.dactions_done, the number of log entries already  *)
(* replayed into it; catchup_dactions() replays the rest into the level    *)
(* that is loaded.  travel_cache keeps, per level, one counter per counted *)
(* action kind.                                                            *)
(***************************************************************************)
EXTENDS Integers, Sequences, FiniteSets, TLC

\* ------------------------------------------------------------------------
\* daction_type (values as laid out by daction_names[], TAG_MAJOR_VERSION 34)
\* ------------------------------------------------------------------------
DACT_ALLY_HOLY == 0
DACT_ALLY_UNHOLY_EVIL == 1
DACT_ALLY_UNCLEAN_CHAOTIC == 2
DACT_ALLY_SPELLCASTER == 3
DACT_ALLY_YRED_SLAVE == 4
DACT_ALLY_BEOGH == 5
DACT_ALLY_SLIME == 6
DACT_ALLY_PLANT == 7
NUM_DA_COUNTERS == 8
DACT_OLD_ENSLAVED_SOULS_POOF == 16
DACT_HOLY_NEW_ATTEMPT == 17
DACT_HOLY_PETS_GO_NEUTRAL == 18
DACT_ALLY_TROG == 19
DACT_SHUFFLE_DECKS == 20
DACT_REAUTOMAP == 21
DACT_REMOVE_JIYVA_ALTARS == 22
DACT_PIKEL_SLAVES == 23
DACT_ROT_CORPSES == 24
DACT_TOMB_CTELE == 25
DACT_SLIME_NEW_ATTEMPT == 26
NUM_DACTIONS == 27

\* The kinds that share the "go hostile" branch of _apply_daction.
HostileKinds ==
    { DACT_ALLY_HOLY, DACT_ALLY_UNHOLY_EVIL, DACT_ALLY_UNCLEAN_CHAOTIC,
      DACT_ALLY_SPELLCASTER, DACT_ALLY_YRED_SLAVE, DACT_ALLY_BEOGH,
      DACT_ALLY_SLIME, DACT_ALLY_PLANT, DACT_ALLY_TROG }

\* The kinds that share the "go good-neutral" branch of _apply_daction.
NeutralKinds == { DACT_HOLY_PETS_GO_NEUTRAL, DACT_PIKEL_SLAVES }

\* The counted kinds: the indices of LevelInfo::da_counters.
Counted == 0 .. (NUM_DA_COUNTERS - 1)

\* ------------------------------------------------------------------------
\* Bounds of the model
\* ------------------------------------------------------------------------
\* Longest log the model schedules.
MaxLog == 3
\* Side of the (square) tile grid; the outermost ring is the map border.
GridSize == 4

\* The levels of the world, and the kinds the model's callers schedule.
Levels == { "D1", "D2" }
SchedKinds ==
    { DACT_ALLY_HOLY, DACT_ALLY_PLANT, DACT_OLD_ENSLAVED_SOULS_POOF,
      DACT_ALLY_TROG }

\* ------------------------------------------------------------------------
\* Monsters
\* ------------------------------------------------------------------------
GoodGods == { "GOD_ZIN", "GOD_SHINING_ONE", "GOD_ELYVILON" }

\* A monster slot of env.mons.  god, holiness, genus, evil, unclean, chaotic,
\* caster and pikel_band never change; the rest is what the actions write.
Mon(type, att, god, holi, genus, caster, evil, flags) ==
    [ type |-> type, alive |-> TRUE, attitude |-> att, charm |-> FALSE,
      god |-> god, holiness |-> holi, genus |-> genus, caster |-> caster,
      evil |-> evil, unclean |-> FALSE, chaotic |-> FALSE, flags |-> flags,
      pikel_band |-> FALSE, mname |-> "", behaviour |-> "BEH_SEEK" ]

\* monster::friendly(), good_neutral(), strict_neutral(), wont_attack().
friendly(mon) == mon.attitude = "ATT_FRIENDLY" \/ mon.charm
wont_attack(mon) ==
    \/ friendly(mon)
    \/ mon.attitude = "ATT_GOOD_NEUTRAL"
    \/ mon.attitude = "ATT_STRICT_NEUTRAL"

is_good_god(god) == god \in GoodGods
is_holy(mon) == mon.holiness = "MH_HOLY"
is_unholy(mon) == mon.holiness = "MH_DEMONIC"
is_evil(mon) == mon.evil \/ mon.holiness = "MH_UNDEAD"
mons_is_god_gift(mon, god) == "MF_GOD_GIFT" \in mon.flags /\ mon.god = god
mons_is_plant(mon) == mon.genus = "plant"
mons_is_slime(mon) == mon.genus = "slime"
mons_enslaved_soul(mon) == "MF_ENSLAVED_SOUL" \in mon.flags
is_yred_undead_slave(mon) ==
    /\ mon.alive
    /\ mon.holiness = "MH_UNDEAD"
    /\ mon.attitude = "ATT_FRIENDLY"
    /\ mons_is_god_gift(mon, "GOD_YREDELEMNUL")
is_fellow_slime(mon) ==
    /\ mon.alive
    /\ mons_is_slime(mon)
    /\ mon.attitude = "ATT_STRICT_NEUTRAL"
    /\ mons_is_god_gift(mon, "GOD_JIYVA")

\* _mons_matches_counter(mon, act)
mons_matches_counter(mon, act) ==
    IF ~mon.alive THEN FALSE
    ELSE CASE act = DACT_ALLY_HOLY ->
                wont_attack(mon) /\ is_good_god(mon.god)
           [] act = DACT_ALLY_UNHOLY_EVIL ->
                wont_attack(mon) /\ (is_unholy(mon) \/ is_evil(mon))
           [] act = DACT_ALLY_UNCLEAN_CHAOTIC ->
                wont_attack(mon) /\ (mon.unclean \/ mon.chaotic)
           [] act = DACT_ALLY_SPELLCASTER ->
                wont_attack(mon) /\ mon.caster
           [] act = DACT_ALLY_YRED_SLAVE -> is_yred_undead_slave(mon)
           [] act = DACT_ALLY_BEOGH ->
                wont_attack(mon) /\ mons_is_god_gift(mon, "GOD_BEOGH")
           [] act = DACT_ALLY_SLIME -> is_fellow_slime(mon)
           [] act = DACT_ALLY_PLANT -> mons_is_plant(mon)
           [] act = DACT_ALLY_TROG ->
                friendly(mon) /\ mons_is_god_gift(mon, "GOD_TROG")
           [] act = DACT_HOLY_PETS_GO_NEUTRAL ->
                /\ friendly(mon)
                /\ ~mon.charm
                /\ is_holy(mon)
                /\ mons_is_god_gift(mon, "GOD_SHINING_ONE")
           [] act = DACT_PIKEL_SLAVES ->
                /\ mon.type = "MONS_SLAVE"
                /\ "MF_BAND_MEMBER" \in mon.flags
                /\ mon.pikel_band
                /\ mon.mname # "freed slave"
           [] OTHER -> FALSE

\* ------------------------------------------------------------------------
\* State
\* ------------------------------------------------------------------------
VARIABLES
    dactions,      \* you.dactions: the log of scheduled actions
    active,        \* the level that is loaded (env is levels[active])
    levels,        \* per level: monsters, grid, items, flags, cursor, trace
    da_counters,   \* travel_cache: per level, LevelInfo::da_counters
    aborted,       \* an ASSERT has failed: the process is gone
    last           \* the operation that produced this state

vars == << dactions, active, levels, da_counters, aborted, last >>

\* One entry of a level's trace of what the handlers did to it.
Ev(ev, mon, act, text) == [ ev |-> ev, mon |-> mon, act |-> act, text |-> text ]

Emit(env, evs) == [ env EXCEPT !.events = @ \o evs ]

\* ------------------------------------------------------------------------
\* _apply_daction: the loop bodies, for the monster in slot i
\* ------------------------------------------------------------------------
\* Variant of go_hostile: the " turns against you!" message for every kind.
go_hostile_always_msg(env, act, i) ==
    LET mon == env.mons[i]
        mon1 == [ mon EXCEPT !.attitude = "ATT_HOSTILE",
                             !.charm = FALSE,
                             !.flags = IF act = DACT_ALLY_PLANT \/ act = DACT_ALLY_SLIME
                                       THEN @ \ { "MF_ATT_CHANGE_ATTEMPT" }
                                       ELSE @ ]
    IN  [ env EXCEPT !.mons[i] = mon1,
                     !.events = @ \o << Ev("going hostile", i, act, ""),
                                        Ev("ME_ALERT", i, act, ""),
                                        Ev("mons_att_changed", i, act, ""),
                                        Ev("msg", i, act, " turns against you!") >> ]

\* Variant of go_hostile: the charm enchantment is left on the monster.
go_hostile_keep_charm(env, act, i) ==
    LET mon == env.mons[i]
        mon1 == [ mon EXCEPT !.attitude = "ATT_HOSTILE",
                             !.flags = IF act = DACT_ALLY_PLANT \/ act = DACT_ALLY_SLIME
                                       THEN @ \ { "MF_ATT_CHANGE_ATTEMPT" }
                                       ELSE @ ]
        evs == << Ev("going hostile", i, act, ""),
                  Ev("ME_ALERT", i, act, ""),
                  Ev("mons_att_changed", i, act, "") >>
               \o ( IF act = DACT_ALLY_TROG
                    THEN << Ev("msg", i, act, " turns against you!") >>
                    ELSE << >> )
    IN  Emit([ env EXCEPT !.mons[i] = mon1 ], evs)

\* lines 151-167: a matching monster goes hostile.
go_hostile(env, act, i) ==
    LET mon == env.mons[i]
        mon1 == [ mon EXCEPT !.attitude = "ATT_HOSTILE",
                             !.charm = FALSE,
                             !.flags = IF act = DACT_ALLY_PLANT \/ act = DACT_ALLY_SLIME
                                       THEN @ \ { "MF_ATT_CHANGE_ATTEMPT" }
                                       ELSE @ ]
        evs == << Ev("going hostile", i, act, ""),
                  Ev("ME_ALERT", i, act, ""),
                  Ev("mons_att_changed", i, act, "") >>
               \o ( IF act = DACT_ALLY_TROG
                    THEN << Ev("msg", i, act, " turns against you!") >>
                    ELSE << >> )
    IN  Emit([ env EXCEPT !.mons[i] = mon1 ], evs)

\* lines 173-177: an enslaved soul is freed and dismissed.
soul_poof(env, act, i) ==
    Emit([ env EXCEPT !.mons[i].alive = FALSE ],
         << Ev("msg", i, act, " is freed."),
            Ev("monster_die", i, act, "KILL_DISMISSED") >>)

\* lines 193-207: a matching monster goes good-neutral.
go_neutral(env, act, i) ==
    LET mon == env.mons[i]
        mon1 == [ mon EXCEPT !.attitude = "ATT_GOOD_NEUTRAL",
                             !.flags = IF act = DACT_PIKEL_SLAVES
                                       THEN @ \cup { "MF_NAME_REPLACE",
                                                     "MF_NAME_DESCRIPTOR",
                                                     "MF_NAME_NOCORPSE" }
                                       ELSE @,
                             !.mname = IF act = DACT_PIKEL_SLAVES
                                       THEN "freed slave" ELSE @,
                             !.behaviour = "BEH_WANDER" ]
        evs == << Ev("mons_att_changed", i, act, "") >>
               \o ( IF act = DACT_PIKEL_SLAVES
                    THEN << >>
                    ELSE << Ev("msg", i, act, " becomes indifferent.") >> )
    IN  Emit([ env EXCEPT !.mons[i] = mon1 ], evs)

\* Variant of new_attempt: the whole flag word is cleared.
new_attempt_all_flags(env, i) ==
    [ env EXCEPT !.mons[i].flags = { } ]

\* lines 181-182, 186-187: the monster may be converted again.
new_attempt(env, i) ==
    [ env EXCEPT !.mons[i].flags = @ \ { "MF_ATT_CHANGE_ATTEMPT" } ]

\* Variant of mon_body: the hostile branch without the test of
\* _mons_matches_counter.
mon_body_no_match(env, act, i) ==
    LET mon == env.mons[i] IN
    CASE act \in HostileKinds -> go_hostile(env, act, i)
      [] act = DACT_OLD_ENSLAVED_SOULS_POOF ->
            IF mons_enslaved_soul(mon) THEN soul_poof(env, act, i) ELSE env
      [] act = DACT_HOLY_NEW_ATTEMPT ->
            IF is_holy(mon) THEN new_attempt(env, i) ELSE env
      [] act = DACT_SLIME_NEW_ATTEMPT ->
            IF mons_is_slime(mon) THEN new_attempt(env, i) ELSE env
      [] act \in NeutralKinds ->
            IF mons_matches_counter(mon, act) THEN go_neutral(env, act, i) ELSE env
      [] OTHER -> env

\* The body of the monster loop of kind act, at the living monster in slot i.
mon_body(env, act, i) ==
    LET mon == env.mons[i] IN
    CASE act \in HostileKinds ->
            IF mons_matches_counter(mon, act) THEN go_hostile(env, act, i) ELSE env
      [] act = DACT_OLD_ENSLAVED_SOULS_POOF ->
            IF mons_enslaved_soul(mon) THEN soul_poof(env, act, i) ELSE env
      [] act = DACT_HOLY_NEW_ATTEMPT ->
            IF is_holy(mon) THEN new_attempt(env, i) ELSE env
      [] act = DACT_SLIME_NEW_ATTEMPT ->
            IF mons_is_slime(mon) THEN new_attempt(env, i) ELSE env
      [] act \in NeutralKinds ->
            IF mons_matches_counter(mon, act) THEN go_neutral(env, act, i) ELSE env
      [] OTHER -> env

\* Variant of mon_loop: an iterator that is not safe against removal of the
\* current monster and passes over the slot after it.
RECURSIVE mon_loop_skip(_, _, _)
mon_loop_skip(env, act, i) ==
    IF i > Len(env.mons) THEN env
    ELSE LET env1 == IF env.mons[i].alive THEN mon_body(env, act, i) ELSE env
         IN  mon_loop_skip(env1, act,
                           IF env.mons[i].alive /\ ~env1.mons[i].alive
                           THEN i + 2 ELSE i + 1)

\* monster_iterator: the slots of env.mons in index order, the living ones
\* only; a monster removed by the body leaves its slot empty and the
\* iterator goes on with the next slot.
RECURSIVE mon_loop(_, _, _)
mon_loop(env, act, i) ==
    IF i > Len(env.mons) THEN env
    ELSE mon_loop(IF env.mons[i].alive THEN mon_body(env, act, i) ELSE env,
                  act, i + 1)

\* rectangle_iterator ri(1): every square at least 1 away from the map edge.
InBounds1 ==
    { c \in (0 .. GridSize - 1) \X (0 .. GridSize - 1) :
        /\ c[1] >= 1 /\ c[1] <= GridSize - 2
        /\ c[2] >= 1 /\ c[2] <= GridSize - 2 }

\* Variant of remove_jiyva_altars: the test is on the feature being an altar
\* of any god.
remove_jiyva_altars_any(env) ==
    [ env EXCEPT !.grd =
        [ c \in DOMAIN @ |->
            IF c \in InBounds1 /\ @[c] \in { "DNGN_ALTAR_JIYVA", "DNGN_ALTAR_ZIN" }
            THEN "DNGN_FLOOR" ELSE @[c] ] ]

\* lines 217-221
remove_jiyva_altars(env) ==
    [ env EXCEPT !.grd =
        [ c \in DOMAIN @ |->
            IF c \in InBounds1 /\ @[c] = "DNGN_ALTAR_JIYVA"
            THEN "DNGN_FLOOR" ELSE @[c] ] ]

\* lines 224-226
rot_corpses(env) ==
    [ env EXCEPT !.mitm =
        [ i \in DOMAIN @ |->
            IF @[i].base_type = "OBJ_CORPSES" /\ @[i].sub_type = "CORPSE_BODY"
            THEN [ @[i] EXCEPT !.special = 1 ] ELSE @[i] ] ]

\* lines 229-230
tomb_ctele(env) ==
    IF env.branch = "BRANCH_TOMB"
    THEN [ env EXCEPT !.no_tele_control = FALSE ]
    ELSE env

\* The switch of _apply_daction: what kind act does to the loaded level.  A
\* value with no case of its own (NUM_DA_COUNTERS, NUM_DACTIONS, the unused
\* indices between the counters and the first uncounted kind) does nothing.
daction_switch(env, act) ==
    CASE act \in HostileKinds \cup NeutralKinds
             \cup { DACT_OLD_ENSLAVED_SOULS_POOF, DACT_HOLY_NEW_ATTEMPT,
                    DACT_SLIME_NEW_ATTEMPT } ->
            mon_loop(env, act, 1)
      [] act = DACT_SHUFFLE_DECKS ->
            Emit(env, << Ev("shuffle_all_decks_on_level", 0, act, "") >>)
      [] act = DACT_REAUTOMAP ->
            Emit(env, << Ev("reautomap_level", 0, act, "") >>)
      [] act = DACT_REMOVE_JIYVA_ALTARS -> remove_jiyva_altars(env)
      [] act = DACT_ROT_CORPSES -> rot_corpses(env)
      [] act = DACT_TOMB_CTELE -> tomb_ctele(env)
      [] OTHER -> env

\* What the game outside dactions.cc does when a handler calls into it
\* (monster_die, behaviour_event, mons_att_changed, ...): nothing that
\* concerns the log, or one call of add_daction(sched), made while kind on is
\* being applied, before ("enter") or after ("leave") the handler's own work.
NoHook == [ on |-> -1, sched |-> -1, when |-> "never" ]

RECURSIVE apply_daction(_, _)
RECURSIVE catchup_dactions(_)
RECURSIVE add_daction(_, _)

\* _apply_daction(act), on the loaded level.
apply_daction(st, act) ==
    IF ~(act >= 0 /\ act < NUM_DACTIONS)
    THEN [ st EXCEPT !.aborted = TRUE ]
    ELSE LET st0 == [ st EXCEPT !.env = Emit(@, << Ev("apply", 0, act, "") >>) ]
         IN  IF st.hook.on # act
             THEN [ st0 EXCEPT !.env = daction_switch(@, act) ]
             ELSE IF st.hook.when = "enter"
             THEN LET st1 == add_daction([ st0 EXCEPT !.hook = NoHook ],
                                         st.hook.sched)
                  IN  IF st1.aborted THEN st1
                      ELSE [ st1 EXCEPT !.env = daction_switch(@, act) ]
             ELSE add_daction([ st0 EXCEPT !.hook = NoHook,
                                           !.env = daction_switch(@, act) ],
                              st.hook.sched)

\* Variant of catchup_dactions: every pending entry is served by applying
\* the newest entry of the log (you.dactions.back()).
RECURSIVE catchup_dactions_back(_)
catchup_dactions_back(st) ==
    IF st.env.dactions_done < Len(st.dactions)
    THEN LET act == st.dactions[Len(st.dactions)]
             st1 == [ st EXCEPT !.env.dactions_done = @ + 1 ]
         IN  catchup_dactions_back(apply_daction(st1, act))
    ELSE st

\* Variant of catchup_dactions: the loop stops one entry early
\* (dactions_done + 1 < size).
RECURSIVE catchup_dactions_short(_)
catchup_dactions_short(st) ==
    IF st.env.dactions_done + 1 < Len(st.dactions)
    THEN LET act == st.dactions[st.env.dactions_done + 1]
             st1 == [ st EXCEPT !.env.dactions_done = @ + 1 ]
         IN  catchup_dactions_short(apply_daction(st1, act))
    ELSE st

\* Variant of catchup_dactions: the log is drained as a queue, an applied
\* entry is removed from it.
RECURSIVE catchup_dactions_pop(_)
catchup_dactions_pop(st) ==
    IF st.dactions # << >>
    THEN LET act == Head(st.dactions)
             st1 == [ st EXCEPT !.dactions = Tail(@),
                                !.env.dactions_done = 0 ]
         IN  catchup_dactions_pop(apply_daction(st1, act))
    ELSE st

\* Variant of catchup_dactions: one entry is applied and the cursor is set
\* to the end of the log.
catchup_dactions_jump(st) ==
    IF st.env.dactions_done < Len(st.dactions)
    THEN LET act == st.dactions[st.env.dactions_done + 1]
             st1 == [ st EXCEPT !.env.dactions_done = Len(st.dactions) ]
         IN  apply_daction(st1, act)
    ELSE st

\* Variant of catchup_dactions: no cursor, the whole log is replayed by
\* every call.
RECURSIVE replay_from(_, _)
replay_from(st, i) ==
    IF i <= Len(st.dactions)
    THEN replay_from(apply_daction([ st EXCEPT !.env.dactions_done = i ],
                                   st.dactions[i]), i + 1)
    ELSE st

catchup_dactions_restart(st) == replay_from(st, 1)

\* catchup_dactions(): the cursor is read and advanced before the entry's
\* handler runs (you.dactions[env.dactions_done++]).
\* Variant of catchup_dactions: the cursor is advanced when the handler has
\* returned (_apply_daction(you.dactions[env.dactions_done]); then
\* env.dactions_done++).
RECURSIVE catchup_dactions_late(_)
catchup_dactions_late(st) ==
    IF ~st.aborted /\ st.env.dactions_done < Len(st.dactions)
    THEN LET act == st.dactions[st.env.dactions_done + 1]
             st1 == apply_daction(st, act)
         IN  catchup_dactions_late([ st1 EXCEPT !.env.dactions_done = @ + 1 ])
    ELSE st

catchup_dactions(st) ==
    IF ~st.aborted /\ st.env.dactions_done < Len(st.dactions)
    THEN LET act == st.dactions[st.env.dactions_done + 1]
             st1 == [ st EXCEPT !.env.dactions_done = @ + 1 ]
         IN  catchup_dactions(apply_daction(st1, act))
    ELSE st

\* TravelCache::clear_da_counter(c): slot c of every level the cache tracks.
clear_da_counter(tc, act) ==
    [ l \in DOMAIN tc |-> [ tc[l] EXCEPT ![act] = 0 ] ]

\* Variant of add_daction: the counter of a counted kind is left as it is.
add_daction_no_clear(st, act) ==
    catchup_dactions([ st EXCEPT !.dactions = Append(@, act) ])

\* add_daction(act)
\* Variant of add_daction: scheduling a counted kind zeroes the whole counter
\* table of every level.
add_daction_clear_all(st, act) ==
    LET st1 == [ st EXCEPT !.dactions = Append(@, act) ]
        st2 == IF act < NUM_DA_COUNTERS
               THEN [ st1 EXCEPT !.tc = [ l \in DOMAIN @ |->
                                            [ k \in DOMAIN @[l] |-> 0 ] ] ]
               ELSE st1
    IN  catchup_dactions(st2)

add_daction(st, act) ==
    LET st1 == [ st EXCEPT !.dactions = Append(@, act) ]
        st2 == IF act < NUM_DA_COUNTERS
               THEN [ st1 EXCEPT !.tc = clear_da_counter(@, act) ]
               ELSE st1
    IN  catchup_dactions(st2)

\* update_da_counters(lev), lines 109-112: the monsters counted are those of
\* the loaded level (monster_iterator), one increment per matching kind.
RECURSIVE count_mons(_, _, _)
count_mons(env, cnt, i) ==
    IF i > Len(env.mons) THEN cnt
    ELSE count_mons(env,
                    [ act \in Counted |->
                        IF mons_matches_counter(env.mons[i], act)
                        THEN cnt[act] + 1 ELSE cnt[act] ],
                    i + 1)

\* Variant of update_da_counters: the slots are not zeroed before counting.
update_da_counters_no_reset(st, lev) ==
    [ st EXCEPT !.tc[lev] = count_mons(st.env, st.tc[lev], 1) ]

update_da_counters(st, lev) ==
    [ st EXCEPT !.tc[lev] = count_mons(st.env, [ act \in Counted |-> 0 ], 1) ]

\* ------------------------------------------------------------------------
\* The world the model starts from
\* ------------------------------------------------------------------------
\* D1: an allied angel that casts spells, a hostile daeva, an allied orc,
\* two enslaved souls in neighbouring slots, a plant.
MonsD1 ==
    << Mon("MONS_ANGEL", "ATT_FRIENDLY", "GOD_SHINING_ONE", "MH_HOLY", "other",
           TRUE, FALSE, { "MF_GOD_GIFT", "MF_ATT_CHANGE_ATTEMPT" }),
       Mon("MONS_DAEVA", "ATT_HOSTILE", "GOD_SHINING_ONE", "MH_HOLY", "other",
           FALSE, FALSE, { "MF_ATT_CHANGE_ATTEMPT" }),
       Mon("MONS_ORC", "ATT_FRIENDLY", "GOD_BEOGH", "MH_NATURAL", "other",
           FALSE, FALSE, { "MF_GOD_GIFT" }),
       Mon("MONS_SPECTRAL_THING", "ATT_FRIENDLY", "GOD_YREDELEMNUL", "MH_UNDEAD",
           "other", FALSE, FALSE, { "MF_ENSLAVED_SOUL" }),
       Mon("MONS_SPECTRAL_THING", "ATT_FRIENDLY", "GOD_YREDELEMNUL", "MH_UNDEAD",
           "other", TRUE, FALSE, { "MF_ENSLAVED_SOUL" }),
       Mon("MONS_PLANT", "ATT_GOOD_NEUTRAL", "GOD_FEDHAS", "MH_PLANT", "plant",
           FALSE, FALSE, { "MF_ATT_CHANGE_ATTEMPT" }) >>

\* D2: a berserker given by Trog, a charmed (otherwise hostile) wizard, an
\* enslaved soul, an empty slot, a fellow slime, one of Pikel's slaves.
MonsD2 ==
    << Mon("MONS_DEEP_DWARF_BERSERKER", "ATT_FRIENDLY", "GOD_TROG", "MH_NATURAL",
           "other", FALSE, FALSE, { "MF_GOD_GIFT" }),
       [ Mon("MONS_WIZARD", "ATT_HOSTILE", "GOD_NO_GOD", "MH_NATURAL", "other",
             TRUE, TRUE, { }) EXCEPT !.charm = TRUE ],
       Mon("MONS_SPECTRAL_THING", "ATT_FRIENDLY", "GOD_YREDELEMNUL", "MH_UNDEAD",
           "other", FALSE, FALSE, { "MF_ENSLAVED_SOUL" }),
       [ Mon("MONS_ANGEL", "ATT_FRIENDLY", "GOD_SHINING_ONE", "MH_HOLY", "other",
             TRUE, FALSE, { "MF_GOD_GIFT" }) EXCEPT !.alive = FALSE ],
       Mon("MONS_JELLY", "ATT_STRICT_NEUTRAL", "GOD_JIYVA", "MH_NATURAL", "slime",
           FALSE, FALSE, { "MF_GOD_GIFT", "MF_ATT_CHANGE_ATTEMPT" }),
       [ Mon("MONS_SLAVE", "ATT_HOSTILE", "GOD_NO_GOD", "MH_NATURAL", "other",
             FALSE, FALSE, { "MF_BAND_MEMBER" }) EXCEPT !.pikel_band = TRUE ] >>

\* The map border is rock; the altars stand inside it.
Grid(altars) ==
    [ c \in (0 .. GridSize - 1) \X (0 .. GridSize - 1) |->
        IF c \notin InBounds1 THEN "DNGN_ROCK_WALL"
        ELSE IF c \in DOMAIN altars THEN altars[c]
        ELSE "DNGN_FLOOR" ]

GrdD1 ==
    Grid(<< 1, 1 >> :> "DNGN_ALTAR_JIYVA" @@ << 2, 2 >> :> "DNGN_ALTAR_JIYVA"
         @@ << 1, 2 >> :> "DNGN_ALTAR_ZIN")
GrdD2 == Grid(<< 2, 1 >> :> "DNGN_ALTAR_JIYVA")

Item(base, sub, special) ==
    [ base_type |-> base, sub_type |-> sub, special |-> special ]

MitmD1 ==
    << Item("OBJ_CORPSES", "CORPSE_BODY", 100),
       Item("OBJ_CORPSES", "CORPSE_SKELETON", 100),
       Item("OBJ_WEAPONS", "WPN_CLUB", 0) >>
MitmD2 == << Item("OBJ_CORPSES", "CORPSE_BODY", 1) >>

Level(mons, grd, mitm, branch) ==
    [ mons |-> mons, grd |-> grd, mitm |-> mitm, branch |-> branch,
      no_tele_control |-> (branch = "BRANCH_TOMB"),
      dactions_done |-> 0, events |-> << >> ]

\* The program state the handlers work on: the log, the loaded level, the
\* travel cache.
StateOf(l) ==
    [ dactions |-> dactions, env |-> levels[l], tc |-> da_counters,
      aborted |-> FALSE, hook |-> NoHook ]

State == StateOf(active)

\* The number of living monsters of level l that match kind act.
Matching(l, act) ==
    Cardinality({ i \in DOMAIN levels[l].mons :
                    mons_matches_counter(levels[l].mons[i], act) })

\* The kinds a level's trace shows applied to it, in the order applied.
RECURSIVE AppliedOf(_)
AppliedOf(evs) ==
    IF evs = << >> THEN << >>
    ELSE IF Head(evs).ev = "apply"
         THEN << Head(evs).act >> \o AppliedOf(Tail(evs))
         ELSE AppliedOf(Tail(evs))

Applied(l) == AppliedOf(levels[l].events)

\* The levels as generated.
InitLevel(l) ==
    IF l = "D1"
    THEN Level(MonsD1, GrdD1, MitmD1, "BRANCH_MAIN_DUNGEON")
    ELSE Level(MonsD2, GrdD2, MitmD2, "BRANCH_TOMB")

\* Both levels exist before anything is scheduled; each level's counters are
\* those of its monsters.
Init ==
    /\ dactions = << >>
    /\ active \in Levels
    /\ levels = [ l \in Levels |-> InitLevel(l) ]
    /\ da_counters = [ l \in Levels |->
                         count_mons(InitLevel(l), [ act \in Counted |-> 0 ], 1) ]
    /\ aborted = FALSE
    /\ last = [ op |-> "init", act |-> -1, n |-> 0 ]

\* Writes a handler's result back.
Commit(st) ==
    /\ dactions' = st.dactions
    /\ levels' = [ levels EXCEPT ![active] = st.env ]
    /\ da_counters' = st.tc
    /\ aborted' = st.aborted
    /\ UNCHANGED active

\* add_daction(act), called by the game with the level loaded.
AddDaction(act) ==
    /\ ~aborted
    /\ Len(dactions) < MaxLog
    /\ Commit(add_daction(State, act))
    /\ last' = [ op |-> "add_daction", act |-> act, n |-> 1 ]

\* catchup_dactions(), called on its own (after a level is loaded).
CatchUp ==
    /\ ~aborted
    /\ Commit(catchup_dactions(State))
    /\ last' = [ op |-> "catchup_dactions", act |-> -1,
                 n |-> IF last.op = "catchup_dactions" THEN 2 ELSE 1 ]

\* update_da_counters(lev) for the LevelInfo of the loaded level.
UpdateDaCounters ==
    /\ ~aborted
    /\ Commit(update_da_counters(State, active))
    /\ last' = [ op |-> "update_da_counters", act |-> -1, n |-> 1 ]

\* The player moves to level l: env is saved with the level left and the
\* level entered is restored with the cursor it was saved with.
LoadLevel(l) ==
    /\ ~aborted
    /\ l # active
    /\ active' = l
    /\ UNCHANGED << dactions, levels, da_counters, aborted >>
    /\ last' = [ op |-> "load_level", act |-> -1, n |-> 1 ]

Next ==
    \/ \E act \in SchedKinds : AddDaction(act)
    \/ CatchUp
    \/ UpdateDaCounters
    \/ \E l \in Levels : LoadLevel(l)

Spec == Init /\ [][Next]_vars

\* The same program driven with the kinds of Jiyva's fall and of the renewed
\* conversion attempts.
SchedKindsB ==
    { DACT_ALLY_SLIME, DACT_REMOVE_JIYVA_ALTARS, DACT_HOLY_NEW_ATTEMPT,
      DACT_SLIME_NEW_ATTEMPT }

NextB ==
    \/ \E act \in SchedKindsB : AddDaction(act)
    \/ CatchUp
    \/ UpdateDaCounters
    \/ \E l \in Levels : LoadLevel(l)

SpecB == Init /\ [][NextB]_vars

\* The same program with handlers that call back into add_daction.
SchedKindsR ==
    { DACT_ALLY_YRED_SLAVE, DACT_OLD_ENSLAVED_SOULS_POOF, DACT_SHUFFLE_DECKS }

\* add_daction(act), where the application of act calls add_daction(sched)
\* before or after the handler's own work.
AddDactionReentrant(act, sched, when) ==
    /\ ~aborted
    /\ Len(dactions) + 2 <= MaxLog
    /\ Commit(add_daction([ State EXCEPT
                              !.hook = [ on |-> act, sched |-> sched,
                                         when |-> when ] ], act))
    /\ last' = [ op |-> "add_daction_reentered", act |-> act, n |-> 2 ]

NextR ==
    \/ \E act \in SchedKindsR : AddDaction(act)
    \/ \E act \in SchedKindsR, sched \in SchedKindsR,
          when \in { "enter", "leave" } :
            AddDactionReentrant(act, sched, when)
    \/ CatchUp
    \/ UpdateDaCounters
    \/ \E l \in Levels : LoadLevel(l)

SpecR == Init /\ [][NextR]_vars

\* One of the indices left free between the counters and the first uncounted
\* kind (the 0 entries of daction_names after the first eight).
DACT_UNUSED == 9

\* The values of daction_type that name a delayed action.
DeclaredKinds ==
    (0 .. NUM_DA_COUNTERS - 1)
        \cup (DACT_OLD_ENSLAVED_SOULS_POOF .. NUM_DACTIONS - 1)

\* The same program handed values of daction_type that name no action, next
\* to a kind that does.
SchedKindsC == { NUM_DA_COUNTERS, DACT_UNUSED, NUM_DACTIONS, DACT_ROT_CORPSES }

NextC ==
    \/ \E act \in SchedKindsC : AddDaction(act)
    \/ CatchUp
    \/ UpdateDaCounters
    \/ \E l \in Levels : LoadLevel(l)

SpecC == Init /\ [][NextC]_vars

\* ------------------------------------------------------------------------
\* Properties
\* ------------------------------------------------------------------------
\* The level l would be in after the kinds of seq were applied to env one by
\* one, in the order of seq, each once.
RECURSIVE Replay(_, _)
Replay(env, seq) ==
    IF seq = << >> THEN env
    ELSE Replay(apply_daction([ State EXCEPT
                                  !.env = [ env EXCEPT !.dactions_done = @ + 1 ] ],
                              Head(seq)).env,
                Tail(seq))

Other(l) == CHOOSE l2 \in Levels : l2 # l

\* C1: for every level, whenever it was loaded, the entries applied to it so
\* far are exactly the first dactions_done entries of the log, in the log's
\* order, none skipped and none twice, and the level is in the state that
\* applying them in that order to the level as generated gives.
ReplayIsLogPrefix ==
    \A l \in Levels :
        LET applied == Applied(l) IN
        /\ levels[l].dactions_done <= Len(dactions)
        /\ applied = SubSeq(dactions, 1, levels[l].dactions_done)
        /\ levels[l] = Replay(InitLevel(l), applied)

\* A level loaded late has replayed a log of two different kinds that the
\* other level has not replayed yet.
ReplayIsLogPrefixWitness ==
    /\ last.op = "catchup_dactions"
    /\ Len(dactions) >= 2
    /\ dactions[1] # dactions[2]
    /\ Applied(active) = dactions
    /\ levels[Other(active)].dactions_done = 0

\* C2: a catch-up that follows a catch-up (or an add_daction, which ends with
\* one) with nothing scheduled in between changes nothing: no entry applied,
\* the level, its cursor, the counters and the log as they were.
IdempotentReplay ==
    [][ ( /\ last.op \in { "catchup_dactions", "add_daction" }
          /\ last'.op = "catchup_dactions" )
        => UNCHANGED << dactions, active, levels, da_counters, aborted >> ]_vars

\* The second of two catch-ups in a row has returned, on a level that has
\* entries applied.
IdempotentReplayWitness ==
    /\ last.op = "catchup_dactions"
    /\ last.n = 2
    /\ Len(Applied(active)) >= 2

\* C3: when add_daction(act) returns for a counted kind, counter act is 0 on
\* every level of the travel cache, the levels not loaded included.
PessimisticZeroing ==
    ( last.op = "add_daction" /\ last.act < NUM_DA_COUNTERS )
        => \A l \in Levels : da_counters[l][last.act] = 0

\* A counted kind was just scheduled and the level that is not loaded still
\* has a monster matching it, its counter zeroed all the same.
PessimisticZeroingWitness ==
    /\ last.op = "add_daction"
    /\ last.act < NUM_DA_COUNTERS
    /\ Matching(Other(active), last.act) > 0
    /\ da_counters[Other(active)][last.act] = 0

\* C4: when update_da_counters returns for the loaded level, each counter of
\* that level is the number of its living monsters matching the kind,
\* whatever was zeroed before.
CounterAccuracy ==
    last.op = "update_da_counters"
        => \A act \in Counted : da_counters[active][act] = Matching(active, act)

\* A counted kind was scheduled while this level was not loaded (it is in the
\* log and was never applied here); the level was loaded and recounted, and
\* the counter is positive again.
CounterAccuracyWitness ==
    /\ last.op = "update_da_counters"
    /\ \E j \in DOMAIN dactions :
          /\ dactions[j] \in Counted
          /\ \A k \in DOMAIN Applied(active) : Applied(active)[k] # dactions[j]
          /\ da_counters[active][dactions[j]] > 0

\* C5: on every level, no counter of a counted kind is larger than the
\* number of living monsters of the level that match the kind: a counter
\* never overstates presence, for the kind just scheduled and for the others.
CountersNeverOverstate ==
    \A l \in Levels : \A act \in Counted :
        da_counters[l][act] <= Matching(l, act)

\* C6: when add_daction or catchup_dactions returns, the cursor of the loaded
\* level is the length of the log and every entry of the log, the one just
\* scheduled included, has been applied to the loaded level.
CaughtUpOnReturn ==
    last.op \in { "add_daction", "catchup_dactions" }
        => /\ levels[active].dactions_done = Len(dactions)
           /\ Applied(active) = dactions

\* add_daction has returned with the kind it scheduled as the newest of
\* several entries, all applied to the loaded level.
CaughtUpOnReturnWitness ==
    /\ last.op = "add_daction"
    /\ Len(dactions) >= 2
    /\ dactions[Len(dactions)] = last.act
    /\ Applied(active)[Len(dactions)] = last.act
    /\ levels[active].dactions_done = Len(dactions)

\* q is p followed by zero or more entries.
IsPrefix(p, q) == Len(p) <= Len(q) /\ SubSeq(q, 1, Len(p)) = p

\* C7: the log only grows at its end: by every step the log before is a
\* prefix of the log after; add_daction appends the scheduled kind and
\* nothing else; no other operation changes the log.
LogAppendOnly ==
    [][ /\ IsPrefix(dactions, dactions')
        /\ last'.op = "add_daction" => dactions' = Append(dactions, last'.act)
        /\ last'.op # "add_daction" => dactions' = dactions ]_vars

\* A catch-up has replayed several entries into a level that was behind and
\* the log still holds them all.
LogAppendOnlyWitness ==
    /\ last.op = "catchup_dactions"
    /\ last.n = 1
    /\ Len(dactions) = MaxLog
    /\ levels[active].dactions_done = Len(dactions)
    /\ levels[Other(active)].dactions_done = Len(dactions)

\* C8: every level's cursor stays between 0 and the length of the log; by
\* every step no cursor decreases and a cursor advances by exactly the number
\* of entries the step applied to its level.
CursorInvariant ==
    /\ [](\A l \in Levels :
            /\ levels[l].dactions_done >= 0
            /\ levels[l].dactions_done <= Len(dactions))
    /\ [][ \A l \in Levels :
            /\ levels'[l].dactions_done >= levels[l].dactions_done
            /\ levels'[l].dactions_done - levels[l].dactions_done
                 = Len(AppliedOf(levels'[l].events)) - Len(Applied(l)) ]_vars

\* The loaded level's cursor is strictly inside the log's length on one level
\* and at its end on the other, after a catch-up of several entries.
CursorInvariantWitness ==
    /\ last.op = "catchup_dactions"
    /\ levels[active].dactions_done = Len(dactions)
    /\ Len(dactions) >= 2
    /\ levels[Other(active)].dactions_done = 1

\* The number of entries of level l's trace of kind ev, about monster mon,
\* made while kind act was applied.
NumEv(l, ev, mon, act) ==
    Cardinality({ j \in DOMAIN levels[l].events :
                    /\ levels[l].events[j].ev = ev
                    /\ levels[l].events[j].mon = mon
                    /\ levels[l].events[j].act = act })

\* C9 as claimed: every monster a faction-hostility kind turns hostile emits a
\* message, the allied holy one turned by DACT_ALLY_HOLY included.
EveryTurnedMonsterEmitsMessage ==
    \A l \in Levels : \A i \in DOMAIN levels[l].mons : \A act \in HostileKinds :
        NumEv(l, "going hostile", i, act) > 0 => NumEv(l, "msg", i, act) > 0

\* C9: of the faction-hostility kinds only DACT_ALLY_TROG emits a message for
\* a monster it turns hostile, one " turns against you!" per monster turned;
\* the other kinds, DACT_ALLY_HOLY among them, turn monsters hostile without
\* any message of their own.
OnlyTrogEmitsTurnMessage ==
    \A l \in Levels :
        /\ \A j \in DOMAIN levels[l].events :
              LET e == levels[l].events[j] IN
              /\ ( e.ev = "msg" /\ e.act \in HostileKinds )
                    => /\ e.act = DACT_ALLY_TROG
                       /\ e.text = " turns against you!"
              /\ e.text = " turns against you!"
                    => /\ e.act = DACT_ALLY_TROG
                       /\ e.ev = "msg"
        /\ \A i \in DOMAIN levels[l].mons :
              NumEv(l, "msg", i, DACT_ALLY_TROG)
                = NumEv(l, "going hostile", i, DACT_ALLY_TROG)

\* The allied angel of D1 was turned hostile by DACT_ALLY_HOLY without a
\* message while the daeva and the orc are as they were, and the berserker of
\* D2 was turned by DACT_ALLY_TROG with its message.
OnlyTrogEmitsTurnMessageWitness ==
    /\ NumEv("D1", "going hostile", 1, DACT_ALLY_HOLY) = 1
    /\ levels["D1"].mons[1].attitude = "ATT_HOSTILE"
    /\ NumEv("D1", "msg", 1, DACT_ALLY_HOLY) = 0
    /\ levels["D1"].mons[2] = MonsD1[2]
    /\ levels["D1"].mons[3] = MonsD1[3]
    /\ NumEv("D2", "going hostile", 1, DACT_ALLY_TROG) = 1
    /\ NumEv("D2", "msg", 1, DACT_ALLY_TROG) = 1

\* The level l is in after DACT_OLD_ENSLAVED_SOULS_POOF is applied to it as
\* it is now.
PoofOn(l) ==
    apply_daction(StateOf(l), DACT_OLD_ENSLAVED_SOULS_POOF).env

\* The number of entries of trace evs of kind ev about monster mon.
NumIn(evs, ev, mon) ==
    Cardinality({ j \in DOMAIN evs : evs[j].ev = ev /\ evs[j].mon = mon })

\* C10: applying the soul-release kind to a level, in whatever state the
\* level is, removes every living enslaved soul, each with one " is freed."
\* message followed by one dismissal (KILL_DISMISSED), souls in slot order;
\* every other monster, the grid, the items and the cursor are left as they
\* were and no monster is passed over or handled twice.  Once the kind has
\* been applied to a level no enslaved soul lives there and the monsters
\* alive are those generated alive that are not enslaved souls.
SoulRelease ==
    \A l \in Levels :
        LET after == PoofOn(l)
            trace == SubSeq(after.events, Len(levels[l].events) + 1,
                            Len(after.events))
        IN
        /\ \A i \in DOMAIN levels[l].mons :
              LET mon == levels[l].mons[i] IN
              IF mon.alive /\ mons_enslaved_soul(mon)
              THEN /\ after.mons[i] = [ mon EXCEPT !.alive = FALSE ]
                   /\ NumIn(trace, "msg", i) = 1
                   /\ NumIn(trace, "monster_die", i) = 1
                   /\ \E j \in DOMAIN trace :
                         /\ j + 1 \in DOMAIN trace
                         /\ trace[j] =
                              Ev("msg", i, DACT_OLD_ENSLAVED_SOULS_POOF, " is freed.")
                         /\ trace[j + 1] =
                              Ev("monster_die", i, DACT_OLD_ENSLAVED_SOULS_POOF,
                                 "KILL_DISMISSED")
              ELSE /\ after.mons[i] = mon
                   /\ \A j \in DOMAIN trace : trace[j].mon # i
        /\ \A j, k \in DOMAIN trace : j < k => trace[j].mon <= trace[k].mon
        /\ Len(after.mons) = Len(levels[l].mons)
        /\ after.grd = levels[l].grd
        /\ after.mitm = levels[l].mitm
        /\ after.dactions_done = levels[l].dactions_done
        /\ ( \E k \in DOMAIN Applied(l) :
                Applied(l)[k] = DACT_OLD_ENSLAVED_SOULS_POOF )
             => \A i \in DOMAIN levels[l].mons :
                   levels[l].mons[i].alive
                     = ( InitLevel(l).mons[i].alive
                         /\ ~mons_enslaved_soul(InitLevel(l).mons[i]) )

\* add_daction(DACT_OLD_ENSLAVED_SOULS_POOF) has returned on D1: both souls,
\* in neighbouring slots, are gone, each with its message and its dismissal,
\* and the allied orc is as generated.
SoulReleaseWitness ==
    /\ last.op = "add_daction"
    /\ last.act = DACT_OLD_ENSLAVED_SOULS_POOF
    /\ active = "D1"
    /\ dactions = << DACT_OLD_ENSLAVED_SOULS_POOF >>
    /\ ~levels["D1"].mons[4].alive
    /\ ~levels["D1"].mons[5].alive
    /\ NumEv("D1", "msg", 4, DACT_OLD_ENSLAVED_SOULS_POOF) = 1
    /\ NumEv("D1", "msg", 5, DACT_OLD_ENSLAVED_SOULS_POOF) = 1
    /\ NumEv("D1", "monster_die", 5, DACT_OLD_ENSLAVED_SOULS_POOF) = 1
    /\ levels["D1"].mons[3] = MonsD1[3]

\* ------------------------------------------------------------------------
\* C11: DACT_REMOVE_JIYVA_ALTARS turns every DNGN_ALTAR_JIYVA square of the
\* loaded level into DNGN_FLOOR and leaves every other square, the altars of
\* other gods included, as it was; monsters and items are not touched.
\* Checked on every reachable level both for the application that would
\* happen now and for the applications that did happen.
AltarRemoval ==
    \A l \in Levels :
        LET before == levels[l]
            after == apply_daction(StateOf(l), DACT_REMOVE_JIYVA_ALTARS).env
            first == InitLevel(l).grd
            done == \E i \in DOMAIN Applied(l) :
                        Applied(l)[i] = DACT_REMOVE_JIYVA_ALTARS
        IN  /\ \A c \in DOMAIN before.grd :
                  after.grd[c] = IF before.grd[c] = "DNGN_ALTAR_JIYVA"
                                 THEN "DNGN_FLOOR" ELSE before.grd[c]
            /\ after.mons = before.mons
            /\ after.mitm = before.mitm
            /\ \A c \in DOMAIN first :
                  before.grd[c] = IF done /\ first[c] = "DNGN_ALTAR_JIYVA"
                                  THEN "DNGN_FLOOR" ELSE first[c]

AltarRemovalWitness ==
    /\ last.op = "add_daction"
    /\ last.act = DACT_REMOVE_JIYVA_ALTARS
    /\ active = "D1"
    /\ InitLevel("D1").grd[<< 1, 1 >>] = "DNGN_ALTAR_JIYVA"
    /\ levels["D1"].grd[<< 1, 1 >>] = "DNGN_FLOOR"
    /\ levels["D1"].grd[<< 1, 2 >>] = "DNGN_ALTAR_ZIN"
    /\ levels["D2"].grd[<< 2, 1 >>] = "DNGN_ALTAR_JIYVA"

\* ------------------------------------------------------------------------
\* C12: an entry whose kind is not a declared one (NUM_DA_COUNTERS,
\* NUM_DACTIONS, an unused index) is never consumed silently: whenever a
\* level's cursor has passed such an entry, the program has aborted.
UnknownKindAborts ==
    \A l \in Levels :
        \A i \in 1 .. levels[l].dactions_done :
            dactions[i] \notin DeclaredKinds => aborted

\* ------------------------------------------------------------------------
\* The number of living monsters of env that match kind act.
MatchingIn(env, act) ==
    Cardinality({ i \in DOMAIN env.mons :
                    mons_matches_counter(env.mons[i], act) })

HostilityFrame ==
    \A l \in Levels :
        \A k \in HostileKinds :
            LET before == levels[l].mons
                after == apply_daction(StateOf(l), k).env.mons
            IN  \A i \in DOMAIN before :
                    after[i] =
                        IF mons_matches_counter(before[i], k)
                        THEN [ before[i] EXCEPT
                                 !.attitude = "ATT_HOSTILE",
                                 !.charm = FALSE,
                                 !.flags =
                                     IF k \in { DACT_ALLY_PLANT, DACT_ALLY_SLIME }
                                     THEN @ \ { "MF_ATT_CHANGE_ATTEMPT" }
                                     ELSE @ ]
                        ELSE before[i]

\* DACT_ALLY_SLIME was scheduled on D2: the fellow slime is hostile with the
\* attempt flag gone and the gift flag kept, the charmed wizard and the dead
\* angel are as generated.
HostilityFrameWitness ==
    /\ last.op = "add_daction"
    /\ last.act = DACT_ALLY_SLIME
    /\ active = "D2"
    /\ is_fellow_slime(MonsD2[5])
    /\ levels["D2"].mons[5].attitude = "ATT_HOSTILE"
    /\ levels["D2"].mons[5].flags = { "MF_GOD_GIFT" }
    /\ levels["D2"].mons[2] = MonsD2[2]
    /\ levels["D2"].mons[2].charm
    /\ levels["D2"].mons[4] = MonsD2[4]

\* ------------------------------------------------------------------------
\* C15: applying DACT_HOLY_NEW_ATTEMPT (DACT_SLIME_NEW_ATTEMPT) to a level
\* removes MF_ATT_CHANGE_ATTEMPT from the flags of every living holy monster
\* (every living slime) and changes nothing else: no attitude, no other
\* flag, no monster outside the faction, no dead monster.
ReconversionReset ==
    \A l \in Levels :
        \A k \in { DACT_HOLY_NEW_ATTEMPT, DACT_SLIME_NEW_ATTEMPT } :
            LET before == levels[l].mons
                after == apply_daction(StateOf(l), k).env.mons
                member(mon) == IF k = DACT_HOLY_NEW_ATTEMPT
                               THEN is_holy(mon) ELSE mons_is_slime(mon)
            IN  \A i \in DOMAIN before :
                    after[i] =
                        IF before[i].alive /\ member(before[i])
                        THEN [ before[i] EXCEPT
                                 !.flags = @ \ { "MF_ATT_CHANGE_ATTEMPT" } ]
                        ELSE before[i]

\* DACT_HOLY_NEW_ATTEMPT was scheduled on D1: the angel and the hostile daeva
\* have lost the attempt flag and kept attitude and gift flag, the plant
\* still carries its attempt flag.
ReconversionResetWitness ==
    /\ last.op = "add_daction"
    /\ last.act = DACT_HOLY_NEW_ATTEMPT
    /\ active = "D1"
    /\ "MF_ATT_CHANGE_ATTEMPT" \in MonsD1[1].flags
    /\ levels["D1"].mons[1].flags = { "MF_GOD_GIFT" }
    /\ levels["D1"].mons[1].attitude = "ATT_FRIENDLY"
    /\ levels["D1"].mons[2].flags = { }
    /\ levels["D1"].mons[2].attitude = "ATT_HOSTILE"
    /\ "MF_ATT_CHANGE_ATTEMPT" \in levels["D1"].mons[6].flags

\* ------------------------------------------------------------------------
\* C17: a step of add_daction with an uncounted kind leaves the counters of
\* every level as they were; a step of add_daction with a counted kind
\* changes at most the slot of that kind on each level; a step of
\* catchup_dactions leaves every counter as it was; and in no step other
\* than update_da_counters does any counter grow.
CounterFrame ==
    [][ /\ ( last'.op = "add_daction" /\ last'.act >= NUM_DA_COUNTERS )
              => da_counters' = da_counters
        /\ ( last'.op = "add_daction" /\ last'.act < NUM_DA_COUNTERS )
              => \A l \in Levels :
                     \A k \in Counted \ { last'.act } :
                         da_counters'[l][k] = da_counters[l][k]
        /\ last'.op = "catchup_dactions" => da_counters' = da_counters
        /\ last'.op # "update_da_counters"
              => \A l \in Levels :
                     \A k \in Counted :
                         da_counters'[l][k] <= da_counters[l][k] ]_vars

\* A counted kind was scheduled after an uncounted one: its slot is 0 on both
\* levels while other slots of both levels still hold their counts.
CounterFrameWitness ==
    /\ last.op = "add_daction"
    /\ last.act = DACT_ALLY_SLIME
    /\ Len(dactions) >= 2
    /\ dactions[1] >= NUM_DA_COUNTERS
    /\ \A l \in Levels : da_counters[l][DACT_ALLY_SLIME] = 0
    /\ \A l \in Levels : da_counters[l][DACT_ALLY_UNHOLY_EVIL] > 0

\* ------------------------------------------------------------------------
\* C16: when the application of an entry calls add_daction again, the nested
\* catch-up starts behind the entry being applied: on every level the kinds
\* applied are the log up to the level's cursor, each entry once, and when
\* the outermost add_daction returns the cursor of the loaded level is the
\* length of the log, with the entry that re-entered and the entry scheduled
\* from inside it both applied once.
ReentrantScheduling ==
    /\ \A l \in Levels :
          LET done == Applied(l)
          IN  /\ levels[l].dactions_done <= Len(dactions)
              /\ done = SubSeq(dactions, 1, levels[l].dactions_done)
    /\ last.op \in { "add_daction", "add_daction_reentered" }
          => levels[active].dactions_done = Len(dactions)

\* add_daction has returned after its handler scheduled a second entry: both
\* are in the log, the loaded level has applied each once, in log order.
ReentrantSchedulingWitness ==
    /\ last.op = "add_daction_reentered"
    /\ Len(dactions) = 3
    /\ dactions[2] = last.act
    /\ levels[active].dactions_done = 3
    /\ Applied(active) = dactions
    /\ levels[Other(active)].dactions_done < 3

====
